---- MODULE Spec2Model ----
(***************************************************************************)
(* The contract ABI registry of accounts/abi: loading a schema document    *)
(* (ABI.UnmarshalJSON), packing calls (ABI.Pack), unpacking return and log *)
(* data (ABI.Unpack, ABI.UnpackIntoMap), the lookups by selector and by    *)
(* topic (ABI.MccmodById, ABI.EventByID) and the signature, selector and   *)
(* rendered form of a method (Mccmod.Sig, Mccmod.Id, Mccmod.String); and   *)
(* the answers of the JSON-RPC server to batches (rpc/testdata).           *)
(*                                                                         *)
(* Spec is the registry with one caller, SpecCallers the registry shared   *)
(* by concurrent callers, SpecBatch the JSON-RPC server.                   *)
(*                                                                         *)
(* Go strings are sequences of one-character strings, so that fmt.Sprintf, *)
(* strings.Join and the hash of a signature are computed, not assumed.     *)
(* Byte slices are sequences of integers 0..255.                           *)
(***************************************************************************)
EXTENDS Integers, Sequences, FiniteSets, TLC

VARIABLES abi, doc, call

vars == <<abi, doc, call>>

(***************************************************************************)
(* Bounds of the model.                                                    *)
(***************************************************************************)
\* longest schema document that is loaded
MaxDoc == 3

\* longest schema document of function entries only, or of event entries only
MaxSame == 4

\* number of concurrent callers that share one registry
MaxCallers == 2

\* longest JSON-RPC batch that is sent
MaxBatch == 4

(***************************************************************************)
(* Strings.                                                                *)
(***************************************************************************)
\* strings.Join(elems, sep)
RECURSIVE Join(_, _)
Join(elems, sep) ==
    IF Len(elems) = 0 THEN <<>>
    ELSE IF Len(elems) = 1 THEN elems[1]
    ELSE elems[1] \o sep \o Join(Tail(elems), sep)

\* one decimal digit
Digit(d) == <<"0", "1", "2", "3", "4", "5", "6", "7", "8", "9">>[d + 1]

\* the verb %d of fmt.Sprintf on a non-negative int
RECURSIVE Decimal(_)
Decimal(n) ==
    IF n < 10 THEN <<Digit(n)>>
    ELSE Decimal(n \div 10) \o <<Digit(n % 10)>>

\* []byte(s): the UTF-8 code of a character (all of them are ASCII here)
Byte(c) ==
    CASE c = "(" -> 40  [] c = ")" -> 41  [] c = "," -> 44
      [] c = "0" -> 48  [] c = "1" -> 49  [] c = "2" -> 50  [] c = "3" -> 51
      [] c = "4" -> 52  [] c = "5" -> 53  [] c = "6" -> 54  [] c = "7" -> 55
      [] c = "8" -> 56  [] c = "9" -> 57  [] c = "[" -> 91  [] c = "]" -> 93
      [] c = " " -> 32
      [] c = "a" -> 97  [] c = "b" -> 98  [] c = "c" -> 99  [] c = "d" -> 100
      [] c = "e" -> 101 [] c = "f" -> 102 [] c = "g" -> 103 [] c = "h" -> 104
      [] c = "i" -> 105 [] c = "l" -> 108 [] c = "n" -> 110 [] c = "o" -> 111
      [] c = "r" -> 114 [] c = "s" -> 115 [] c = "t" -> 116 [] c = "u" -> 117
      [] c = "x" -> 120 [] c = "y" -> 121

StringBytes(s) == [i \in 1..Len(s) |-> Byte(s[i])]

(***************************************************************************)
(* Types (§3 of the specification).  A Type is a record tagged by T:       *)
(*   uint / int (Size bits), bool, address, string, bytes,                 *)
(*   slice (Elem), array (Elem, Size), tuple (Elems: sequence of Types).   *)
(***************************************************************************)
Uint(bits) == [T |-> "uint", Size |-> bits]
Bool == [T |-> "bool"]
String == [T |-> "string"]
Address == [T |-> "address"]
Slice(elem) == [T |-> "slice", Elem |-> elem]
Array(elem, n) == [T |-> "array", Elem |-> elem, Size |-> n]
Tuple(elems) == [T |-> "tuple", Elems |-> elems]

\* Type.String(): the canonical string of a type
RECURSIVE TypeString(_)
TypeString(t) ==
    CASE t.T = "uint" -> <<"u", "i", "n", "t">> \o Decimal(t.Size)
      [] t.T = "int" -> <<"i", "n", "t">> \o Decimal(t.Size)
      [] t.T = "bool" -> <<"b", "o", "o", "l">>
      [] t.T = "address" -> <<"a", "d", "d", "r", "e", "s", "s">>
      [] t.T = "string" -> <<"s", "t", "r", "i", "n", "g">>
      [] t.T = "bytes" -> <<"b", "y", "t", "e", "s">>
      [] t.T = "slice" -> TypeString(t.Elem) \o <<"[", "]">>
      [] t.T = "array" -> TypeString(t.Elem) \o <<"[">> \o Decimal(t.Size) \o <<"]">>
      [] t.T = "tuple" ->
           <<"(">> \o Join([i \in 1..Len(t.Elems) |-> TypeString(t.Elems[i])], <<",">>)
                   \o <<")">>

\* isDynamicType: string, bytes, slice, or an array / tuple with a dynamic member
RECURSIVE IsDynamicType(_)
IsDynamicType(t) ==
    CASE t.T \in {"string", "bytes", "slice"} -> TRUE
      [] t.T = "array" -> IsDynamicType(t.Elem)
      [] t.T = "tuple" -> \E i \in 1..Len(t.Elems) : IsDynamicType(t.Elems[i])
      [] OTHER -> FALSE

\* Argument{Name, Type}
Arg(name, type) == [Name |-> name, Type |-> type]

(***************************************************************************)
(* Mccmod (a callable of the contract) and Event.                          *)
(***************************************************************************)
NewMccmod(name, const, inputs, outputs) ==
    [Name |-> name, Const |-> const, Inputs |-> inputs, Outputs |-> outputs]

\* the zero value Mccmod{}
ZeroMccmod == NewMccmod(<<>>, FALSE, <<>>, <<>>)

NewEvent(name, anonymous, inputs) ==
    [Name |-> name, Anonymous |-> anonymous, Inputs |-> inputs]

\* Sig that joins the types with ", " as Mccmod.String joins its inputs
Sig_CommaSpace(mccmod) ==
    LET types == [i \in 1..Len(mccmod.Inputs) |-> TypeString(mccmod.Inputs[i].Type)]
    IN  mccmod.Name \o <<"(">> \o Join(types, <<",", " ">>) \o <<")">>

\* Sig that renders every input as Mccmod.String does: its type and its name
Sig_WithNames(mccmod) ==
    LET types == [i \in 1..Len(mccmod.Inputs) |->
                    TypeString(mccmod.Inputs[i].Type) \o mccmod.Inputs[i].Name]
    IN  mccmod.Name \o <<"(">> \o Join(types, <<",">>) \o <<")">>

\* Mccmod.Sig(): fmt.Sprintf("%v(%v)", Name, strings.Join(types, ","))
Sig(mccmod) ==
    LET types == [i \in 1..Len(mccmod.Inputs) |-> TypeString(mccmod.Inputs[i].Type)]
    IN  mccmod.Name \o <<"(">> \o Join(types, <<",">>) \o <<")">>

\* String that renders every output as it renders the inputs, "type name"
MccmodString_OutputsAsInputs(mccmod) ==
    LET inputs == [i \in 1..Len(mccmod.Inputs) |->
                     TypeString(mccmod.Inputs[i].Type) \o <<" ">> \o mccmod.Inputs[i].Name]
        outputs == [i \in 1..Len(mccmod.Outputs) |->
                      TypeString(mccmod.Outputs[i].Type) \o <<" ">>
                          \o mccmod.Outputs[i].Name]
        constant == IF mccmod.Const
                    THEN <<"c", "o", "n", "s", "t", "a", "n", "t", " ">> ELSE <<>>
    IN  <<"f", "u", "n", "c", "t", "i", "o", "n", " ">> \o mccmod.Name
            \o <<"(">> \o Join(inputs, <<",", " ">>) \o <<")", " ">> \o constant
            \o <<"r", "e", "t", "u", "r", "n", "s", "(">>
            \o Join(outputs, <<",", " ">>) \o <<")">>

\* Mccmod.String():
\* fmt.Sprintf("function %v(%v) %sreturns(%v)", Name, strings.Join(inputs, ", "),
\*             constant, strings.Join(outputs, ", "))
MccmodString(mccmod) ==
    LET inputs == [i \in 1..Len(mccmod.Inputs) |->
                     TypeString(mccmod.Inputs[i].Type) \o <<" ">> \o mccmod.Inputs[i].Name]
        outputs == [i \in 1..Len(mccmod.Outputs) |->
                      TypeString(mccmod.Outputs[i].Type)
                          \o (IF Len(mccmod.Outputs[i].Name) > 0
                              THEN <<" ">> \o mccmod.Outputs[i].Name ELSE <<>>)]
        constant == IF mccmod.Const
                    THEN <<"c", "o", "n", "s", "t", "a", "n", "t", " ">> ELSE <<>>
    IN  <<"f", "u", "n", "c", "t", "i", "o", "n", " ">> \o mccmod.Name
            \o <<"(">> \o Join(inputs, <<",", " ">>) \o <<")", " ">> \o constant
            \o <<"r", "e", "t", "u", "r", "n", "s", "(">>
            \o Join(outputs, <<",", " ">>) \o <<")">>

\* modulus of the stand-in for the sponge state of the hash
HashMod == 251

\* the absorbing phase of the stand-in hash
RECURSIVE Absorb(_, _)
Absorb(h, bytes) ==
    IF Len(bytes) = 0 THEN h
    ELSE Absorb((h * 31 + Head(bytes)) % HashMod, Tail(bytes))

\* crypto.Keccak256(data): 32 bytes that are a function of data alone
Keccak256(data) ==
    LET h == Absorb(7, data)
    IN  [i \in 1..32 |-> (h * (2 * i + 1) + i * i) % 256]

\* Id that keeps the last four bytes of the hash
Id_LastFour(mccmod) == SubSeq(Keccak256(StringBytes(Sig(mccmod))), 29, 32)

\* Id that keeps eight bytes of the hash
Id_EightBytes(mccmod) == SubSeq(Keccak256(StringBytes(Sig(mccmod))), 1, 8)

\* Mccmod.Id(): crypto.Keccak256([]byte(mccmod.Sig()))[:4]
Id(mccmod) == SubSeq(Keccak256(StringBytes(Sig(mccmod))), 1, 4)

\* Event.Id(): the 32-byte hash of the signature of the event, Name(type1,type2,...)
\* with the Name the Event holds
EventId(event) ==
    LET types == [i \in 1..Len(event.Inputs) |-> TypeString(event.Inputs[i].Type)]
    IN  Keccak256(StringBytes(event.Name \o <<"(">> \o Join(types, <<",">>) \o <<")">>))

(***************************************************************************)
(* The registry.  ABI{Constructor, Mccmods, Events}; the two maps are      *)
(* functions whose domain is the set of keys.                              *)
(***************************************************************************)
EmptyMap == <<>>

\* m[k] = v of a Go map
Put(m, k, v) == [x \in DOMAIN m \cup {k} |-> IF x = k THEN v ELSE m[x]]

\* var abi ABI
ZeroABI == [Constructor |-> ZeroMccmod, Mccmods |-> EmptyMap, Events |-> EmptyMap]

\* one entry of the document, as json.Unmarshal fills the anonymous struct
Field(type, name, constant, anonymous, inputs, outputs) ==
    [Type |-> type, Name |-> name, Constant |-> constant, Anonymous |-> anonymous,
     Inputs |-> inputs, Outputs |-> outputs]

\* the loop with the suffix counted from 1 instead of from 0
RECURSIVE NextFreeName_FromOne(_, _, _)
NextFreeName_FromOne(m, declared, idx) ==
    LET name == declared \o Decimal(idx + 1)
    IN  IF name \in DOMAIN m THEN NextFreeName_FromOne(m, declared, idx + 1) ELSE name

\* the loop that tries one suffix only and overwrites whatever holds that key
NextFreeName_NoLoop(m, declared, idx) == declared \o Decimal(idx)

\* for idx := 0; ok; idx++ { name = fmt.Sprintf("%s%d", field.Name, idx); _, ok = m[name] }
RECURSIVE NextFreeName(_, _, _)
NextFreeName(m, declared, idx) ==
    LET name == declared \o Decimal(idx)
    IN  IF name \in DOMAIN m THEN NextFreeName(m, declared, idx + 1) ELSE name

\* name := field.Name; _, ok := m[name]; followed by the loop above
FreeName(m, declared) ==
    IF declared \in DOMAIN m THEN NextFreeName(m, declared, 0) ELSE declared

\* case "constructor"
LoadConstructor(a, field) ==
    [a EXCEPT !.Constructor = NewMccmod(<<>>, FALSE, field.Inputs, <<>>)]

\* the case that stores the function under the name the entry declares
LoadMccmod_DeclaredKey(a, field) ==
    [a EXCEPT !.Mccmods =
        Put(@, field.Name,
            NewMccmod(field.Name, field.Constant, field.Inputs, field.Outputs))]

\* the case that keeps the declared name in Name and uses the free name as key only
LoadMccmod_DeclaredName(a, field) ==
    LET name == FreeName(a.Mccmods, field.Name)
    IN  [a EXCEPT !.Mccmods =
            Put(@, name, NewMccmod(field.Name, field.Constant, field.Inputs,
                                   field.Outputs))]

\* case "function", ""
LoadMccmod(a, field) ==
    LET name == FreeName(a.Mccmods, field.Name)
    IN  [a EXCEPT !.Mccmods =
            Put(@, name, NewMccmod(name, field.Constant, field.Inputs, field.Outputs))]

\* case "event" that also avoids the keys of the functions
LoadEvent_SharedNames(a, field) ==
    LET name == FreeName([k \in DOMAIN a.Events \cup DOMAIN a.Mccmods |-> TRUE], field.Name)
    IN  [a EXCEPT !.Events = Put(@, name, NewEvent(name, field.Anonymous, field.Inputs))]

\* case "event"
LoadEvent(a, field) ==
    LET name == FreeName(a.Events, field.Name)
    IN  [a EXCEPT !.Events = Put(@, name, NewEvent(name, field.Anonymous, field.Inputs))]

\* the switch without the empty type in the case of the functions
LoadField_TypedOnly(a, field) ==
    CASE field.Type = "constructor" -> LoadConstructor(a, field)
      [] field.Type = "function" -> LoadMccmod(a, field)
      [] field.Type = "event" -> LoadEvent(a, field)
      [] OTHER -> a

\* the switch with a default case that takes any other type for a function
LoadField_DefaultFunction(a, field) ==
    CASE field.Type = "constructor" -> LoadConstructor(a, field)
      [] field.Type = "event" -> LoadEvent(a, field)
      [] OTHER -> LoadMccmod(a, field)

\* the body of the loop over the fields: switch field.Type
LoadField(a, field) ==
    CASE field.Type = "constructor" -> LoadConstructor(a, field)
      [] field.Type \in {"function", ""} -> LoadMccmod(a, field)
      [] field.Type = "event" -> LoadEvent(a, field)
      [] OTHER -> a

\* for _, field := range fields, from the i-th field on
RECURSIVE LoadFrom(_, _, _)
LoadFrom(a, fields, i) ==
    IF i > Len(fields) THEN a
    ELSE LoadFrom(LoadField(a, fields[i]), fields, i + 1)

\* the registry ABI.UnmarshalJSON leaves in a receiver that held a; fields is what
\* json.Unmarshal parsed (a document that does not parse returns before the
\* receiver is touched)
Load(a, fields) ==
    LoadFrom([a EXCEPT !.Mccmods = EmptyMap, !.Events = EmptyMap], fields, 1)

(***************************************************************************)
(* Values handed to the encoder and returned by the decoder:               *)
(*   [k |-> "int", v |-> n]        an integer                              *)
(*   [k |-> "bool", v |-> b]       a boolean                               *)
(*   [k |-> "string", v |-> bytes] a string or byte sequence               *)
(*   [k |-> "list", v |-> values]  the members of an array, slice or tuple *)
(***************************************************************************)
IntV(n) == [k |-> "int", v |-> n]
BoolV(b) == [k |-> "bool", v |-> b]
StringV(bytes) == [k |-> "string", v |-> bytes]
ListV(values) == [k |-> "list", v |-> values]

\* what a call returns: (v, nil), or (nil, err) with the kind of the error
Done(v) == [err |-> "nil", v |-> v]
Error(kind) == [err |-> kind, v |-> <<>>]
Ok(r) == r.err = "nil"

\* the errors of the encoder and of the decoder
EncodingError == Error("encoding")
DecodingError == Error("decoding")

\* n zero bytes
Zeros(n) == [i \in 1..n |-> 0]

\* a 32-byte big-endian word; the integers of the model are below 2^31
Word(n) == [i \in 1..32 |-> IF i <= 28 THEN 0 ELSE (n \div (256 ^ (32 - i))) % 256]

\* padding that puts the zeros in front of the bytes, as for a number
PadRight_PadLeft(bytes) == Zeros((32 - (Len(bytes) % 32)) % 32) \o bytes

\* the raw bytes padded with trailing zeros to the next 32-byte boundary
PadRight(bytes) == bytes \o Zeros((32 - (Len(bytes) % 32)) % 32)

\* n copies of e
Repeat(e, n) == [i \in 1..n |-> e]

\* getTypeSize: the bytes a type occupies in the head
RECURSIVE GetTypeSize(_)
GetTypeSize(t) ==
    IF IsDynamicType(t) THEN 32
    ELSE CASE t.T = "array" -> t.Size * GetTypeSize(t.Elem)
           [] t.T = "tuple" ->
                LET RECURSIVE Sum(_)
                    Sum(i) == IF i = 0 THEN 0 ELSE Sum(i - 1) + GetTypeSize(t.Elems[i])
                IN  Sum(Len(t.Elems))
           [] OTHER -> 32

\* the head length of a sequence of types
RECURSIVE HeadSize(_)
HeadSize(types) ==
    IF Len(types) = 0 THEN 0 ELSE GetTypeSize(Head(types)) + HeadSize(Tail(types))

\* whether an integer fits the declared bit width
FitsBits(n, bits) == n >= 0 /\ (bits >= 31 \/ n < 2 ^ bits)

RECURSIVE PackType(_, _)
RECURSIVE PackLoop(_, _, _, _, _)

\* head/tail encoding of values under types: the head holds the static values and
\* the offsets of the dynamic ones, the tail the encodings of the dynamic ones
PackElems(types, values) == PackLoop(types, values, 1, <<>>, <<>>)

\* the loop with offsets that count from the start of the tail
PackLoop_FromTail(types, values, i, head, tail) ==
    IF i > Len(types) THEN Done(head \o tail)
    ELSE LET packed == PackType(types[i], values[i])
         IN  IF ~Ok(packed) THEN EncodingError
             ELSE IF IsDynamicType(types[i])
                  THEN PackLoop(types, values, i + 1, head \o Word(Len(tail)),
                                tail \o packed.v)
                  ELSE PackLoop(types, values, i + 1, head \o packed.v, tail)

PackLoop(types, values, i, head, tail) ==
    IF i > Len(types) THEN Done(head \o tail)
    ELSE LET packed == PackType(types[i], values[i])
         IN  IF ~Ok(packed) THEN EncodingError
             ELSE IF IsDynamicType(types[i])
                  THEN PackLoop(types, values, i + 1,
                                head \o Word(HeadSize(types) + Len(tail)),
                                tail \o packed.v)
                  ELSE PackLoop(types, values, i + 1, head \o packed.v, tail)

\* Type.pack: the encoding of one value, or a failure when the value does not
\* have the shape of the type
PackType(t, val) ==
    CASE t.T \in {"uint", "int"} ->
           IF val.k = "int" /\ FitsBits(val.v, t.Size) THEN Done(Word(val.v)) ELSE EncodingError
      [] t.T = "bool" ->
           IF val.k = "bool" THEN Done(Word(IF val.v THEN 1 ELSE 0)) ELSE EncodingError
      [] t.T \in {"string", "bytes"} ->
           IF val.k = "string" THEN Done(Word(Len(val.v)) \o PadRight(val.v)) ELSE EncodingError
      [] t.T = "slice" ->
           IF val.k # "list" THEN EncodingError
           ELSE LET elems == PackElems(Repeat(t.Elem, Len(val.v)), val.v)
                IN  IF Ok(elems) THEN Done(Word(Len(val.v)) \o elems.v) ELSE EncodingError
      [] t.T = "array" ->
           IF val.k = "list" /\ Len(val.v) = t.Size
           THEN PackElems(Repeat(t.Elem, t.Size), val.v) ELSE EncodingError
      [] t.T = "tuple" ->
           IF val.k = "list" /\ Len(val.v) = Len(t.Elems)
           THEN PackElems(t.Elems, val.v) ELSE EncodingError
      [] OTHER -> EncodingError

\* the types of an argument schema
Types(arguments) == [i \in 1..Len(arguments) |-> arguments[i].Type]

\* Arguments.Pack(args...): the encoder on an argument schema
ArgumentsPack(arguments, args) ==
    IF Len(args) # Len(arguments) THEN EncodingError
    ELSE PackElems(Types(arguments), args)

\* Pack that appends the selector after the arguments instead of before them
Pack_SelectorLast(a, name, args) ==
    IF name = <<>>
    THEN ArgumentsPack(a.Constructor.Inputs, args)
    ELSE IF name \notin DOMAIN a.Mccmods THEN Error("not found")
    ELSE LET arguments == ArgumentsPack(a.Mccmods[name].Inputs, args)
         IN  IF ~Ok(arguments) THEN Error(arguments.err)
             ELSE Done(arguments.v \o Id(a.Mccmods[name]))

\* Pack that returns the selector it has already computed when the encoder fails
Pack_PartialOnError(a, name, args) ==
    IF name = <<>>
    THEN ArgumentsPack(a.Constructor.Inputs, args)
    ELSE IF name \notin DOMAIN a.Mccmods THEN Error("not found")
    ELSE LET arguments == ArgumentsPack(a.Mccmods[name].Inputs, args)
         IN  IF ~Ok(arguments) THEN [err |-> arguments.err, v |-> Id(a.Mccmods[name])]
             ELSE Done(Id(a.Mccmods[name]) \o arguments.v)

\* Pack that prefixes the hash of the function's name instead of its signature
Pack_SelectorOfName(a, name, args) ==
    IF name = <<>>
    THEN LET arguments == ArgumentsPack(a.Constructor.Inputs, args)
         IN  IF ~Ok(arguments) THEN Error(arguments.err) ELSE Done(arguments.v)
    ELSE IF name \notin DOMAIN a.Mccmods THEN Error("not found")
    ELSE LET mccmod == a.Mccmods[name]
             arguments == ArgumentsPack(mccmod.Inputs, args)
         IN  IF ~Ok(arguments) THEN Error(arguments.err)
             ELSE Done(SubSeq(Keccak256(StringBytes(mccmod.Name)), 1, 4) \o arguments.v)

\* Pack that looks the empty name up in the functions map before it falls back
\* to the constructor
Pack_EmptyKeyFirst(a, name, args) ==
    IF name = <<>> /\ name \notin DOMAIN a.Mccmods
    THEN LET arguments == ArgumentsPack(a.Constructor.Inputs, args)
         IN  IF ~Ok(arguments) THEN Error(arguments.err) ELSE Done(arguments.v)
    ELSE IF name \notin DOMAIN a.Mccmods THEN Error("not found")
    ELSE LET mccmod == a.Mccmods[name]
             arguments == ArgumentsPack(mccmod.Inputs, args)
         IN  IF ~Ok(arguments) THEN Error(arguments.err) ELSE Done(Id(mccmod) \o arguments.v)

\* ABI.Pack(name, args...): (v, nil) or (nil, err)
Pack(a, name, args) ==
    IF name = <<>>
    THEN LET arguments == ArgumentsPack(a.Constructor.Inputs, args)
         IN  IF ~Ok(arguments) THEN Error(arguments.err) ELSE Done(arguments.v)
    ELSE IF name \notin DOMAIN a.Mccmods THEN Error("not found")
    ELSE LET mccmod == a.Mccmods[name]
             arguments == ArgumentsPack(mccmod.Inputs, args)
         IN  IF ~Ok(arguments) THEN Error(arguments.err) ELSE Done(Id(mccmod) \o arguments.v)

(***************************************************************************)
(* The decoder (§4.3 of the specification).                                *)
(***************************************************************************)
\* the integer a 32-byte word holds, when it is below 2^31
WordFits(w) == (\A i \in 1..28 : w[i] = 0) /\ w[29] < 128
WordInt(w) == ((w[29] * 256 + w[30]) * 256 + w[31]) * 256 + w[32]

\* the word at byte offset index (from 0) of data
WordAt(data, index) == SubSeq(data, index + 1, index + 32)

\* the bytes of data from byte offset begin (from 0) on
From(data, begin) == SubSeq(data, begin + 1, Len(data))

RECURSIVE UnpackType(_, _, _)
RECURSIVE UnpackLoop(_, _, _, _, _)

\* the values of types read from the head that starts at byte offset index
UnpackElems(types, data, index) == UnpackLoop(types, data, index, 1, <<>>)

UnpackLoop(types, data, index, i, values) ==
    IF i > Len(types) THEN Done(values)
    ELSE LET val == UnpackType(types[i], data, index)
         IN  IF ~Ok(val) THEN DecodingError
             ELSE UnpackLoop(types, data, index + GetTypeSize(types[i]), i + 1,
                             Append(values, val.v))

\* one value of type t whose head slot is at byte offset index of data; the
\* offsets of dynamic values count from the start of data
UnpackType(t, data, index) ==
    IF index + 32 > Len(data) THEN DecodingError
    ELSE LET slot == WordAt(data, index)
             offset == WordInt(slot)
         IN
    CASE t.T \in {"uint", "int"} ->
           IF WordFits(slot) THEN Done(IntV(WordInt(slot))) ELSE DecodingError
      [] t.T = "bool" ->
           IF WordFits(slot) /\ WordInt(slot) \in {0, 1}
           THEN Done(BoolV(WordInt(slot) = 1)) ELSE DecodingError
      [] t.T \in {"string", "bytes", "slice"} ->
           IF ~WordFits(slot) \/ offset + 32 > Len(data) THEN DecodingError
           ELSE LET lenWord == WordAt(data, offset)
                    length == WordInt(lenWord)
                    begin == offset + 32
                IN  IF ~WordFits(lenWord) THEN DecodingError
                    ELSE IF t.T = "slice"
                    THEN IF begin + length * GetTypeSize(t.Elem) > Len(data)
                         THEN DecodingError
                         ELSE LET elems == UnpackElems(Repeat(t.Elem, length),
                                                       From(data, begin), 0)
                              IN  IF Ok(elems) THEN Done(ListV(elems.v)) ELSE DecodingError
                    ELSE IF begin + length > Len(data) THEN DecodingError
                         ELSE Done(StringV(SubSeq(data, begin + 1, begin + length)))
      [] t.T \in {"array", "tuple"} ->
           LET types == IF t.T = "array" THEN Repeat(t.Elem, t.Size) ELSE t.Elems
               elems == IF IsDynamicType(t)
                        THEN IF ~WordFits(slot) \/ offset > Len(data) THEN DecodingError
                             ELSE UnpackElems(types, From(data, offset), 0)
                        ELSE UnpackElems(types, data, index)
           IN  IF Ok(elems) THEN Done(ListV(elems.v)) ELSE DecodingError
      [] OTHER -> DecodingError

\* the length guard of the decoder: empty input, or a length that is no multiple of 32
BadLength(data) == Len(data) = 0 \/ Len(data) % 32 # 0

\* a decoder without the length guard
ArgumentsUnpack_NoGuard(arguments, data) == UnpackElems(Types(arguments), data, 0)

\* Arguments.Unpack(v, data): the positional list of the decoded values
ArgumentsUnpack(arguments, data) ==
    IF BadLength(data) THEN DecodingError
    ELSE UnpackElems(Types(arguments), data, 0)

\* the named arguments of a schema: an empty name is not addressable in the map
Named(arguments) == {i \in 1..Len(arguments) : arguments[i].Name # <<>>}

\* Arguments.UnpackIntoMap(v, data): the decoded values keyed by argument name
ArgumentsUnpackIntoMap(arguments, data) ==
    LET got == ArgumentsUnpack(arguments, data)
    IN  IF ~Ok(got) THEN got
        ELSE Done([n \in {arguments[i].Name : i \in Named(arguments)} |->
                     got.v[CHOOSE i \in Named(arguments) :
                             /\ arguments[i].Name = n
                             /\ \A j \in Named(arguments) :
                                  arguments[j].Name = n => j <= i]])

\* Unpack that looks the name up among the events first
Unpack_EventsFirst(a, name, data) ==
    IF Len(data) = 0 THEN Error("empty output")
    ELSE IF name \in DOMAIN a.Events
    THEN ArgumentsUnpack(a.Events[name].Inputs, data)
    ELSE IF name \in DOMAIN a.Mccmods
    THEN IF Len(data) % 32 # 0 THEN Error("improperly formatted output")
         ELSE ArgumentsUnpack(a.Mccmods[name].Outputs, data)
    ELSE Error("not found")

\* Unpack that resolves the name before it looks at the data
Unpack_LookupFirst(a, name, data) ==
    IF name \in DOMAIN a.Mccmods
    THEN IF Len(data) = 0 THEN Error("empty output")
         ELSE IF Len(data) % 32 # 0 THEN Error("improperly formatted output")
         ELSE ArgumentsUnpack(a.Mccmods[name].Outputs, data)
    ELSE IF name \in DOMAIN a.Events
    THEN IF Len(data) = 0 THEN Error("empty output")
         ELSE ArgumentsUnpack(a.Events[name].Inputs, data)
    ELSE Error("not found")

\* ABI.Unpack(v, name, data): err, and in v what was written to the caller's v
Unpack(a, name, data) ==
    IF Len(data) = 0 THEN Error("empty output")
    ELSE IF name \in DOMAIN a.Mccmods
    THEN IF Len(data) % 32 # 0 THEN Error("improperly formatted output")
         ELSE ArgumentsUnpack(a.Mccmods[name].Outputs, data)
    ELSE IF name \in DOMAIN a.Events
    THEN ArgumentsUnpack(a.Events[name].Inputs, data)
    ELSE Error("not found")

\* ABI.UnpackIntoMap(v, name, data)
UnpackIntoMap(a, name, data) ==
    IF Len(data) = 0 THEN Error("empty output")
    ELSE IF name \in DOMAIN a.Mccmods
    THEN IF Len(data) % 32 # 0 THEN Error("improperly formatted output")
         ELSE ArgumentsUnpackIntoMap(a.Mccmods[name].Outputs, data)
    ELSE IF name \in DOMAIN a.Events
    THEN ArgumentsUnpackIntoMap(a.Events[name].Inputs, data)
    ELSE Error("not found")

\* MccmodById that rejects a selector two registered functions share
MccmodById_RejectShared(a, sigdata) ==
    IF Len(sigdata) < 4 THEN {Error("data too short")}
    ELSE LET found == {name \in DOMAIN a.Mccmods :
                         Id(a.Mccmods[name]) = SubSeq(sigdata, 1, 4)}
         IN  IF Cardinality(found) = 1 THEN {Done(a.Mccmods[name]) : name \in found}
             ELSE {Error("not found")}

\* MccmodById that compares the selector with the whole input
MccmodById_WholeInput(a, sigdata) ==
    IF Len(sigdata) < 4 THEN {Error("data too short")}
    ELSE LET found == {name \in DOMAIN a.Mccmods : Id(a.Mccmods[name]) = sigdata}
         IN  IF found # {} THEN {Done(a.Mccmods[name]) : name \in found}
             ELSE {Error("not found")}

\* ABI.MccmodById(sigdata): what the call may return.  The scan ranges over a Go
\* map, whose order of iteration is not specified: the first match of the scan is
\* any of the functions whose Id is sigdata[:4]
MccmodById(a, sigdata) ==
    IF Len(sigdata) < 4 THEN {Error("data too short")}
    ELSE LET found == {name \in DOMAIN a.Mccmods :
                         Id(a.Mccmods[name]) = SubSeq(sigdata, 1, 4)}
         IN  IF found # {} THEN {Done(a.Mccmods[name]) : name \in found}
             ELSE {Error("not found")}

\* EventByID that returns an event of the registry when none has the topic
EventByID_AnyEvent(a, topic) ==
    LET found == {name \in DOMAIN a.Events : EventId(a.Events[name]) = topic}
    IN  IF found # {} THEN {Done(a.Events[name]) : name \in found}
        ELSE IF DOMAIN a.Events # {} THEN {Done(a.Events[name]) : name \in DOMAIN a.Events}
        ELSE {Error("not found")}

\* ABI.EventByID(topic): what the call may return, the first event of the scan
\* over the map whose Id is topic
EventByID(a, topic) ==
    LET found == {name \in DOMAIN a.Events : EventId(a.Events[name]) = topic}
    IN  IF found # {} THEN {Done(a.Events[name]) : name \in found}
        ELSE {Error("not found")}

(***************************************************************************)
(* The inputs of the model.                                                *)
(***************************************************************************)
f == <<"f">>
f0 == <<"f", "0">>
f1 == <<"f", "1">>

(***************************************************************************)
(* Types as a document writes them.  json.Unmarshal fills every Argument    *)
(* from {"name", "type", "components"}: the text of the type is parsed by   *)
(* NewType, a tuple with the components that come with it.                  *)
(***************************************************************************)
\* an argument as written in a document
Decl(name, type, components) == [Name |-> name, Type |-> type, Components |-> components]

\* the value of a decimal digit, and of a sequence of decimal digits
Digits == {"0", "1", "2", "3", "4", "5", "6", "7", "8", "9"}
DigitValue(c) == CHOOSE d \in 0..9 : Digit(d) = c

RECURSIVE Atoi(_)
Atoi(s) ==
    IF Len(s) = 0 THEN 0
    ELSE Atoi(SubSeq(s, 1, Len(s) - 1)) * 10 + DigitValue(s[Len(s)])

\* the position of the first character of s that is in set, or Len(s) + 1
First(s, set) ==
    IF \E i \in 1..Len(s) : s[i] \in set
    THEN CHOOSE i \in 1..Len(s) : s[i] \in set /\ \A j \in 1..(i - 1) : s[j] \notin set
    ELSE Len(s) + 1

\* the position of the last "[" of s
LastOpen(s) == CHOOSE i \in 1..Len(s) : s[i] = "[" /\ \A j \in (i + 1)..Len(s) : s[j] # "["

\* the bits of an integer type without the default: nothing written is 0 bits
VarSize_NoDefault(digits) == Atoi(digits)

\* the bits of an integer type: what is written, and 256 when nothing is
VarSize(digits) == IF Len(digits) = 0 THEN 256 ELSE Atoi(digits)

RECURSIVE NewType(_, _)
\* NewType(t, components): the Type a text denotes.  Array suffixes are taken from
\* the right; uint and int without a width are 256 bits wide
NewType(t, components) ==
    IF Len(t) > 0 /\ t[Len(t)] = "]"
    THEN LET open == LastOpen(t)
             elem == NewType(SubSeq(t, 1, open - 1), components)
             size == SubSeq(t, open + 1, Len(t) - 1)
         IN  IF Len(size) = 0 THEN Slice(elem) ELSE Array(elem, Atoi(size))
    ELSE LET cut == First(t, Digits)
             kind == SubSeq(t, 1, cut - 1)
             digits == SubSeq(t, cut, Len(t))
         IN  CASE kind = <<"u", "i", "n", "t">> -> Uint(VarSize(digits))
               [] kind = <<"i", "n", "t">> -> [T |-> "int", Size |-> VarSize(digits)]
               [] kind = <<"b", "o", "o", "l">> -> Bool
               [] kind = <<"s", "t", "r", "i", "n", "g">> -> String
               [] kind = <<"a", "d", "d", "r", "e", "s", "s">> -> Address
               [] kind = <<"b", "y", "t", "e", "s">> /\ Len(digits) = 0 -> [T |-> "bytes"]
               [] kind = <<"t", "u", "p", "l", "e">> ->
                    Tuple([i \in 1..Len(components) |->
                             NewType(components[i].Type, components[i].Components)])

\* the Arguments json.Unmarshal makes of the arguments of a document entry
Arguments(decls) ==
    [i \in 1..Len(decls) |->
        Arg(decls[i].Name, NewType(decls[i].Type, decls[i].Components))]

\* the texts of the types of the documents
uint == <<"u", "i", "n", "t">>
uint8 == uint \o <<"8">>
uint64 == uint \o <<"6", "4">>
uint256 == uint \o <<"2", "5", "6">>
bool == <<"b", "o", "o", "l">>
string == <<"s", "t", "r", "i", "n", "g">>
address == <<"a", "d", "d", "r", "e", "s", "s">>
tuple == <<"t", "u", "p", "l", "e">>

\* {"components": [{"name": "x", "type": "uint256"}, {"name": "y", "type": "uint"}]}
PointComponents == <<Decl(<<"x">>, uint256, <<>>), Decl(<<"y">>, uint, <<>>)>>

Uint256 == NewType(uint256, <<>>)
Point == NewType(tuple, PointComponents)

\* the argument lists of the documents as written: uint256 and uint both occur
DeclA == <<Decl(<<"a">>, uint256, <<>>)>>
DeclS == <<Decl(<<"s">>, string, <<>>)>>
DeclB == <<Decl(<<>>, bool, <<>>)>>
DeclX == <<Decl(<<"x">>, uint8, <<>>)>>
DeclAS == <<Decl(<<"a">>, uint, <<>>), Decl(<<"s">>, string, <<>>)>>
DeclT == <<Decl(<<"t">>, tuple \o <<"[", "2", "]", "[", "]">>, PointComponents)>>
DeclSAS == <<Decl(<<"s">>, string, <<>>), Decl(<<"a">>, uint256, <<>>),
             Decl(<<"t">>, string, <<>>)>>

\* inputs that give the function of the empty name the selector of f(uint8)
DeclC == <<Decl(<<"a">>, address, <<>>), Decl(<<"b">>, uint64, <<>>)>>

\* the same lists as json.Unmarshal parses them
ArgA == Arguments(DeclA)
ArgS == Arguments(DeclS)
ArgB == Arguments(DeclB)
ArgX == Arguments(DeclX)
ArgAS == Arguments(DeclAS)
ArgT == Arguments(DeclT)
ArgSAS == Arguments(DeclSAS)
ArgC == Arguments(DeclC)

\* the entries a schema document is made of, as written
Decls ==
    << Field("function", f, FALSE, FALSE, DeclX, DeclB),
       Field("function", f, TRUE, FALSE, DeclAS, <<>>),
       Field("", f0, FALSE, FALSE, DeclT, DeclA),
       Field("function", <<>>, FALSE, FALSE, DeclC, DeclS),
       Field("event", f, FALSE, TRUE, DeclA, <<>>),
       Field("event", f0, FALSE, FALSE, DeclB, <<>>),
       Field("constructor", <<>>, FALSE, FALSE, DeclA, <<>>),
       Field("constructor", <<>>, FALSE, FALSE, DeclSAS, <<>>),
       Field("fallback", f, FALSE, FALSE, <<>>, <<>>) >>

\* json.Unmarshal(data, &fields) on one entry: its arguments are parsed
Unmarshal(entry) ==
    [entry EXCEPT !.Inputs = Arguments(@), !.Outputs = Arguments(@)]

\* the entries as json.Unmarshal hands them to the loop of UnmarshalJSON
Fields == [i \in 1..Len(Decls) |-> Unmarshal(Decls[i])]

\* the kind of an entry: an omitted type is a function
Kind(e) == IF e.Type \in {"function", ""} THEN "function" ELSE e.Type

\* the positions in Fields of the entries of a kind
FieldsOf(kind) == {i \in 1..Len(Fields) : Kind(Fields[i]) = kind}

\* the sequences of at most n members of S
SeqsUpTo(S, n) == UNION {[1..k -> S] : k \in 0..n}

\* the documents, as positions in Fields: every sequence of at most MaxDoc
\* entries, and every sequence of at most MaxSame function entries or event entries
Docs ==
    SeqsUpTo(1..Len(Fields), MaxDoc)
        \cup SeqsUpTo(FieldsOf("function"), MaxSame)
        \cup SeqsUpTo(FieldsOf("event"), MaxSame)
DocOf(d) == [i \in 1..Len(d) |-> Fields[d[i]]]

\* the names calls are made with
CallNames == <<<<>>, f, f0, f1>>

\* the argument lists handed to Pack
CallArgs ==
    << <<>>,
       <<IntV(5)>>,
       <<IntV(300)>>,
       <<BoolV(TRUE)>>,
       <<IntV(1), StringV(<<97, 98>>)>>,
       <<StringV(<<97>>), IntV(2), StringV(<<>>)>>,
       <<ListV(<<ListV(<<ListV(<<IntV(1), IntV(2)>>), ListV(<<IntV(3), IntV(4)>>)>>)>>)>> >>

\* the byte sequences handed to Unpack and UnpackIntoMap
CallData ==
    << <<>>,
       <<7>>,
       Word(1),
       Word(300) \o <<0>>,
       Word(32) \o Word(2) \o PadRight(<<97, 98>>) >>

\* the inputs handed to MccmodById: the selectors of the registry, alone and
\* followed by an encoded argument, and inputs that are too short or match nothing
CallSigs(a) ==
    {<<>>, <<1, 2, 3>>, <<1, 2, 3, 4>>, SubSeq(Id(NewMccmod(f, FALSE, ArgX, ArgB)), 1, 3)}
        \cup {Id(a.Mccmods[name]) : name \in DOMAIN a.Mccmods}
        \cup {Id(a.Mccmods[name]) \o Word(5) : name \in DOMAIN a.Mccmods}

\* the topics handed to EventByID: the topics of the registry, the topics of the
\* declared names and a hash no event has
CallTopics(a) ==
    {Zeros(32)}
        \cup {EventId(a.Events[name]) : name \in DOMAIN a.Events}
        \cup {EventId(NewEvent(Fields[i].Name, FALSE, Fields[i].Inputs)) :
                 i \in FieldsOf("event")}

(***************************************************************************)
(* The state machine.  abi is the registry, doc the document it was last   *)
(* loaded from (the positions of its entries in Fields), call the          *)
(* operation in progress with its inputs and what it returns.              *)
(*                                                                         *)
(* A registry is built by JSON, may be loaded once more by UnmarshalJSON   *)
(* and is then used.  UnmarshalJSON resets both maps and leaves the        *)
(* Constructor in place, so the receivers JSON builds from the documents   *)
(* of at most one entry hold every content a later load can inherit.       *)
(***************************************************************************)
NoCall(op) == [op |-> op, name |-> <<>>, in |-> <<>>, ret |-> Done(<<>>)]

\* JSON(reader): var abi ABI, then dec.Decode(&abi), which calls abi.UnmarshalJSON
JSON(fields) == Load(ZeroABI, fields)

Init ==
    /\ \E d \in {<<>>} \cup {<<i>> : i \in 1..Len(Fields)} :
          /\ abi = JSON(DocOf(d))
          /\ doc = d
    /\ call = NoCall("new")

\* abi.UnmarshalJSON(data), where data holds the entries of a document of Docs
UnmarshalJSON ==
    /\ call.op = "new"
    /\ \E d \in Docs :
          /\ abi' = Load(abi, DocOf(d))
          /\ doc' = d
    /\ call' = NoCall("UnmarshalJSON")

\* no call is in progress
Ready == call.op \in {"new", "UnmarshalJSON", "idle"}

\* abi.Pack(name, args...)
DoPack ==
    /\ Ready
    /\ \E n \in 1..Len(CallNames), i \in 1..Len(CallArgs) :
          call' = [op |-> "Pack", name |-> CallNames[n], in |-> CallArgs[i],
                   ret |-> Pack(abi, CallNames[n], CallArgs[i])]
    /\ UNCHANGED <<abi, doc>>

\* abi.Unpack(v, name, data)
DoUnpack ==
    /\ Ready
    /\ \E n \in 1..Len(CallNames), i \in 1..Len(CallData) :
          call' = [op |-> "Unpack", name |-> CallNames[n], in |-> CallData[i],
                   ret |-> Unpack(abi, CallNames[n], CallData[i])]
    /\ UNCHANGED <<abi, doc>>

\* abi.UnpackIntoMap(v, name, data)
DoUnpackIntoMap ==
    /\ Ready
    /\ \E n \in 1..Len(CallNames), i \in 1..Len(CallData) :
          call' = [op |-> "UnpackIntoMap", name |-> CallNames[n], in |-> CallData[i],
                   ret |-> UnpackIntoMap(abi, CallNames[n], CallData[i])]
    /\ UNCHANGED <<abi, doc>>

\* abi.Mccmods[name].Sig()
DoSig ==
    /\ Ready
    /\ \E name \in DOMAIN abi.Mccmods :
          call' = [op |-> "Sig", name |-> name, in |-> <<>>,
                   ret |-> Done(Sig(abi.Mccmods[name]))]
    /\ UNCHANGED <<abi, doc>>

\* abi.Mccmods[name].Id()
DoId ==
    /\ Ready
    /\ \E name \in DOMAIN abi.Mccmods :
          call' = [op |-> "Id", name |-> name, in |-> <<>>,
                   ret |-> Done(Id(abi.Mccmods[name]))]
    /\ UNCHANGED <<abi, doc>>

\* abi.Mccmods[name].String()
DoString ==
    /\ Ready
    /\ \E name \in DOMAIN abi.Mccmods :
          call' = [op |-> "String", name |-> name, in |-> <<>>,
                   ret |-> Done(MccmodString(abi.Mccmods[name]))]
    /\ UNCHANGED <<abi, doc>>

\* abi.MccmodById(sigdata)
DoMccmodById ==
    /\ Ready
    /\ \E sigdata \in CallSigs(abi) :
          \E ret \in MccmodById(abi, sigdata) :
              call' = [op |-> "MccmodById", name |-> <<>>, in |-> sigdata, ret |-> ret]
    /\ UNCHANGED <<abi, doc>>

\* abi.EventByID(topic)
DoEventByID ==
    /\ Ready
    /\ \E topic \in CallTopics(abi) :
          \E ret \in EventByID(abi, topic) :
              call' = [op |-> "EventByID", name |-> <<>>, in |-> topic, ret |-> ret]
    /\ UNCHANGED <<abi, doc>>

\* the caller takes the result; the registry is ready for the next call
Return ==
    /\ ~Ready
    /\ call' = NoCall("idle")
    /\ UNCHANGED <<abi, doc>>

Next ==
    \/ UnmarshalJSON
    \/ DoPack
    \/ DoUnpack
    \/ DoUnpackIntoMap
    \/ DoSig
    \/ DoId
    \/ DoString
    \/ DoMccmodById
    \/ DoEventByID
    \/ Return

Spec == Init /\ [][Next]_vars

(***************************************************************************)
(* Concurrent callers.  One registry, built by JSON, is shared by Callers   *)
(* without a lock.  Under SpecCallers call maps every caller to its         *)
(* operation: a caller enters an operation with its inputs (pc "running"),  *)
(* the operation reads the registry and computes what it returns (pc        *)
(* "done"), and the caller leaves with the result.  The steps of different  *)
(* callers interleave freely.                                               *)
(***************************************************************************)
Callers == 1..MaxCallers

\* the documents the shared registry is built from
CallerDocs == SeqsUpTo({1, 4, 5}, 2)

\* the operations the callers invoke, with their inputs
CallerCalls(a) ==
    {[op |-> "Pack", name |-> f, in |-> <<IntV(5)>>],
     [op |-> "Pack", name |-> f1, in |-> <<>>],
     [op |-> "Unpack", name |-> f, in |-> Word(1)],
     [op |-> "UnpackIntoMap", name |-> <<>>, in |-> CallData[5]],
     [op |-> "MccmodById", name |-> <<>>, in |-> <<1, 2, 3, 4>>],
     [op |-> "EventByID", name |-> <<>>, in |-> Zeros(32)]}
        \cup {[op |-> "MccmodById", name |-> <<>>, in |-> Id(a.Mccmods[name])] :
                 name \in DOMAIN a.Mccmods}
        \cup {[op |-> "EventByID", name |-> <<>>, in |-> EventId(a.Events[name])] :
                 name \in DOMAIN a.Events}

\* what an operation may return on registry a
Results(a, c) ==
    CASE c.op = "Pack" -> {Pack(a, c.name, c.in)}
      [] c.op = "Unpack" -> {Unpack(a, c.name, c.in)}
      [] c.op = "UnpackIntoMap" -> {UnpackIntoMap(a, c.name, c.in)}
      [] c.op = "MccmodById" -> MccmodById(a, c.in)
      [] c.op = "EventByID" -> EventByID(a, c.in)

\* no operation of the caller is in progress
Outside(pc) == [op |-> "none", name |-> <<>>, in |-> <<>>, ret |-> Done(<<>>), pc |-> pc]

InitCallers ==
    /\ \E d \in CallerDocs :
          /\ abi = JSON(DocOf(d))
          /\ doc = d
    /\ call = [c \in Callers |-> Outside("new")]

\* caller c invokes an operation of the registry
CallerEnter(c) ==
    /\ call[c].op = "none"
    /\ \E in \in CallerCalls(abi) :
          call' = [call EXCEPT ![c] = [op |-> in.op, name |-> in.name, in |-> in.in,
                                       ret |-> Done(<<>>), pc |-> "running"]]
    /\ UNCHANGED <<abi, doc>>

\* an operation that stores an empty function under a name it does not find, as
\* indexing does for maps that insert on a miss
CallerRun_InsertOnMiss(c) ==
    /\ call[c].pc = "running"
    /\ \E ret \in Results(abi, call[c]) :
          call' = [call EXCEPT ![c].ret = ret, ![c].pc = "done"]
    /\ abi' = IF call[c].op = "Pack" /\ call[c].name \notin DOMAIN abi.Mccmods
              THEN [abi EXCEPT !.Mccmods = Put(@, call[c].name, ZeroMccmod)]
              ELSE abi
    /\ UNCHANGED doc

\* the operation of caller c runs: Pack, Unpack, UnpackIntoMap, MccmodById and
\* EventByID read the registry and assign to none of its fields
CallerRun(c) ==
    /\ call[c].pc = "running"
    /\ \E ret \in Results(abi, call[c]) :
          call' = [call EXCEPT ![c].ret = ret, ![c].pc = "done"]
    /\ UNCHANGED <<abi, doc>>

\* caller c takes the result
CallerLeave(c) ==
    /\ call[c].pc = "done"
    /\ call' = [call EXCEPT ![c] = Outside("idle")]
    /\ UNCHANGED <<abi, doc>>

NextCallers ==
    \E c \in Callers :
        \/ CallerEnter(c)
        \/ CallerRun(c)
        \/ CallerLeave(c)

SpecCallers == InitCallers /\ [][NextCallers]_vars

(***************************************************************************)
(* The JSON-RPC server as rpc/testdata/invalid-batch.js records it: the     *)
(* client writes a batch ("-->"), the server writes what it answers         *)
(* ("<--").  Under SpecBatch call holds the batch sent and the answer.      *)
(***************************************************************************)
\* the codes of the errors
ErrInvalidRequest == -32600
ErrMccmodNotFound == -32601

\* the elements of the batches: a JSON number, or a JSON object with the id and
\* the mccmod it carries ("null", "" when it carries none) and its params
Number(n) == [json |-> "number", v |-> n]
Object(id, mccmod, params) ==
    [json |-> "object", id |-> id, mccmod |-> mccmod, params |-> params]

\* {"jsonrpc":"2.0","id":1,"mccmod":"test_echo","params":["foo",1]}
EchoRequest == Object(1, "test_echo", <<"foo", 1>>)

\* {"jsonrpc":"2.0","id":2,"mccmod":"unknown_mccmod"}
UnknownRequest == Object(2, "unknown_mccmod", <<>>)

\* {"foo":"bar"}
FooBar == Object("null", "", <<>>)

\* the elements that occur in the batches of the script
Elements == {Number(1), Number(2), Number(3), Number(55), EchoRequest, UnknownRequest,
             FooBar}

\* the mccmods the server of the test offers
Services == {"test_echo"}

\* {"jsonrpc":"2.0","id":id,"error":{"code":code,"message":message}}
ErrorMessage(id, code, message) ==
    [id |-> id, error |-> [code |-> code, message |-> message]]

\* {"jsonrpc":"2.0","id":id,"result":{"String":..,"Int":..,"Args":null}}
EchoResult(id, params) ==
    [id |-> id, result |-> [String |-> params[1], Int |-> params[2], Args |-> "null"]]

\* an element that is a request: an object that names a mccmod
IsRequest(e) == e.json = "object" /\ e.mccmod # ""

\* the answer to one element of a batch
HandleMsg(e) ==
    IF ~IsRequest(e) THEN ErrorMessage("null", ErrInvalidRequest, <<"invalid request">>)
    ELSE IF e.mccmod \in Services THEN EchoResult(e.id, e.params)
    ELSE ErrorMessage(e.id, ErrMccmodNotFound,
                      <<"the mccmod ", e.mccmod, " does not exist/is not available">>)

\* a server that gives up the batch at the first element that is no request
RECURSIVE HandleBatch_StopAtJunk(_)
HandleBatch_StopAtJunk(batch) ==
    IF Len(batch) = 0
    THEN [array |-> FALSE,
          msgs |-> <<ErrorMessage("null", ErrInvalidRequest, <<"empty batch">>)>>]
    ELSE LET upto == First(batch, {e \in Elements : ~IsRequest(e)})
         IN  [array |-> TRUE,
              msgs |-> [i \in 1..(IF upto > Len(batch) THEN Len(batch) ELSE upto) |->
                          HandleMsg(batch[i])]]

\* the answer to a batch: one error object for the empty batch, else an array
\* with the answer to every element in the order of the batch
HandleBatch(batch) ==
    IF Len(batch) = 0
    THEN [array |-> FALSE,
          msgs |-> <<ErrorMessage("null", ErrInvalidRequest, <<"empty batch">>)>>]
    ELSE [array |-> TRUE, msgs |-> [i \in 1..Len(batch) |-> HandleMsg(batch[i])]]

InitBatch ==
    /\ abi = ZeroABI
    /\ doc = <<>>
    /\ call = NoCall("new")

\* --> batch, <-- the answer of the server
SendBatch ==
    /\ Ready
    /\ \E batch \in SeqsUpTo(Elements, MaxBatch) :
          call' = [op |-> "batch", name |-> <<>>, in |-> batch, ret |-> HandleBatch(batch)]
    /\ UNCHANGED <<abi, doc>>

NextBatch ==
    \/ SendBatch
    \/ Return

SpecBatch == InitBatch /\ [][NextBatch]_vars

(***************************************************************************)
(* Properties.                                                             *)
(***************************************************************************)
\* the document the registry was last loaded from
LoadedDoc == DocOf(doc)

\* the registry was loaded and no call has been made on it yet
JustLoaded == call.op \in {"new", "UnmarshalJSON"}

\* the first four bytes of the hash of a signature
Selector(sig) == SubSeq(Keccak256(StringBytes(sig)), 1, 4)

\* C1: a successful Pack(name, args) with a non-empty name is the 4-byte selector
\* of the function keyed name followed by the encoder output for its inputs, and a
\* successful Pack("", args) is the encoder output for the constructor's inputs
\* alone
C1_PackLayout ==
    (call.op = "Pack" /\ Ok(call.ret)) =>
        IF call.name = <<>>
        THEN call.ret.v = ArgumentsPack(abi.Constructor.Inputs, call.in).v
        ELSE /\ call.name \in DOMAIN abi.Mccmods
             /\ SubSeq(call.ret.v, 1, 4) = Selector(Sig(abi.Mccmods[call.name]))
             /\ SubSeq(call.ret.v, 5, Len(call.ret.v))
                  = ArgumentsPack(abi.Mccmods[call.name].Inputs, call.in).v

\* a named function was packed with arguments
C1_Witness ==
    /\ call.op = "Pack"
    /\ Ok(call.ret)
    /\ call.name # <<>>
    /\ Len(call.in) = 2
    /\ Len(call.ret.v) > 4

\* the positions of the entries of a kind in a document
Entries(fs, kind) == {i \in 1..Len(fs) : Kind(fs[i]) = kind}

\* what the registry holds for a function entry, or an event entry, stored under key
MccmodOf(key, e) == NewMccmod(key, e.Constant, e.Inputs, e.Outputs)
EventOf(key, e) == NewEvent(key, e.Anonymous, e.Inputs)

\* the entry at position i of the loaded document is registered under key
RegisteredAs(i, key) ==
    LET e == LoadedDoc[i]
    IN  IF Kind(e) = "function"
        THEN key \in DOMAIN abi.Mccmods /\ abi.Mccmods[key] = MccmodOf(key, e)
        ELSE key \in DOMAIN abi.Events /\ abi.Events[key] = EventOf(key, e)

\* i < j are the only two function entries that declare the name of entry i, and
\* no other function entry declares that name followed by 0
OnlyPair(i, j) ==
    LET fs == LoadedDoc
    IN  /\ i < j
        /\ {i, j} \subseteq Entries(fs, "function")
        /\ fs[j].Name = fs[i].Name
        /\ \A k \in Entries(fs, "function") \ {i, j} :
              fs[k].Name \notin {fs[i].Name, fs[i].Name \o <<"0">>}

\* C2 as claimed: when exactly two function entries declare the same name n and
\* no other declares n or n0, the functions map holds the earlier one under n and
\* the later one under n0
C2_TwoSameNames ==
    \A i, j \in 1..Len(doc) :
        (JustLoaded /\ OnlyPair(i, j)) =>
            /\ RegisteredAs(i, LoadedDoc[i].Name)
            /\ RegisteredAs(j, LoadedDoc[i].Name \o <<"0">>)

\* the key of entry i: its declared name when no earlier entry of its kind has
\* that key, else the name followed by the least d >= 0 that gives a key no
\* earlier entry of its kind has
RECURSIVE FirstFreeKey(_, _)
FirstFreeKey(fs, i) ==
    LET n == fs[i].Name
        taken == {FirstFreeKey(fs, j) : j \in {j \in Entries(fs, Kind(fs[i])) : j < i}}
    IN  IF n \notin taken THEN n
        ELSE n \o Decimal(CHOOSE d \in 0..i :
                            /\ n \o Decimal(d) \notin taken
                            /\ \A c \in 0..(d - 1) : n \o Decimal(c) \in taken)

\* no function entry other than i and j is registered under the name of entry i
\* or under that name followed by 0
KeysFree(i, j) ==
    \A k \in Entries(LoadedDoc, "function") \ {i, j} :
        FirstFreeKey(LoadedDoc, k) \notin {LoadedDoc[i].Name, LoadedDoc[i].Name \o <<"0">>}

\* C2 amended: when exactly two function entries declare the same name n and no
\* other function entry declares n or n0 or is registered under n or n0, the
\* functions map holds the earlier one under n and the later one under n0
C2_TwoSameNamesKeysFree ==
    \A i, j \in 1..Len(doc) :
        (JustLoaded /\ OnlyPair(i, j) /\ KeysFree(i, j)) =>
            /\ RegisteredAs(i, LoadedDoc[i].Name)
            /\ RegisteredAs(j, LoadedDoc[i].Name \o <<"0">>)

\* two function entries of different content declare the same name, after two
\* function entries of another name
C2_Witness ==
    /\ JustLoaded
    /\ Len(doc) = 4
    /\ \E i, j \in 3..Len(doc) :
          /\ OnlyPair(i, j)
          /\ KeysFree(i, j)
          /\ LoadedDoc[i] # LoadedDoc[j]
          /\ LoadedDoc[1].Name = LoadedDoc[2].Name
          /\ RegisteredAs(j, LoadedDoc[i].Name \o <<"0">>)

\* the number of entries of the kind of entry i that declare its name before it
Earlier(fs, i) ==
    Cardinality({j \in Entries(fs, Kind(fs[i])) : j < i /\ fs[j].Name = fs[i].Name})

\* the key the k-th entry of a name gets by counting: the bare name, then 0, 1, ...
CountedKey(fs, i) ==
    IF Earlier(fs, i) = 0 THEN fs[i].Name
    ELSE fs[i].Name \o Decimal(Earlier(fs, i) - 1)

\* C3 as claimed: the first entry of a name is registered under the name and the
\* k-th subsequent one under the name followed by k-1, for functions and for events
C3_CountedKeys ==
    JustLoaded =>
        \A i \in Entries(LoadedDoc, "function") \cup Entries(LoadedDoc, "event") :
            RegisteredAs(i, CountedKey(LoadedDoc, i))

\* C3 amended: in document order every function entry is registered under its
\* declared name if that key is free and else under the name followed by the least
\* decimal integer that gives a free key; the same holds for event entries
C3_FirstFreeKeys ==
    JustLoaded =>
        \A i \in Entries(LoadedDoc, "function") \cup Entries(LoadedDoc, "event") :
            RegisteredAs(i, FirstFreeKey(LoadedDoc, i))

\* a declared name coincides with a generated one: counting gives another key
C3_Witness ==
    JustLoaded /\ \E i \in Entries(LoadedDoc, "function") :
        /\ FirstFreeKey(LoadedDoc, i) # CountedKey(LoadedDoc, i)
        /\ RegisteredAs(i, FirstFreeKey(LoadedDoc, i))

\* the entries of a document that are not of a kind
Without(fs, kind) ==
    LET Keep(e) == Kind(e) # kind
    IN  SelectSeq(fs, Keep)

\* the first entry of the kind of entry i in the document
FirstOfKind(fs, i) ==
    CHOOSE j \in Entries(fs, Kind(fs[i])) : \A k \in Entries(fs, Kind(fs[i])) : j <= k

Unpacks == {"Unpack", "UnpackIntoMap"}

\* what the decoder of the operation in progress gives for a schema
Decoded(arguments) ==
    IF call.op = "Unpack" THEN ArgumentsUnpack(arguments, call.in)
    ELSE ArgumentsUnpackIntoMap(arguments, call.in)

\* two results agree on success and on the values returned
SameOutcome(r1, r2) == Ok(r1) = Ok(r2) /\ r1.v = r2.v

DecodingErrors == {"empty output", "improperly formatted output", "decoding"}

\* C6: for a registered name, function or event, Unpack and UnpackIntoMap return a
\* decoding error for data of length 0 or of a length that is no multiple of 32
C6_LengthGuard ==
    ( /\ call.op \in Unpacks
      /\ call.name \in DOMAIN abi.Mccmods \cup DOMAIN abi.Events
      /\ (Len(call.in) = 0 \/ Len(call.in) % 32 # 0) ) =>
        call.ret.err \in DecodingErrors /\ call.ret.v = <<>>

\* an event was unpacked from data that is one byte longer than the word its
\* schema needs
C6_Witness ==
    /\ call.op \in Unpacks
    /\ call.name \in DOMAIN abi.Events \ DOMAIN abi.Mccmods
    /\ Len(call.in) = 33
    /\ Ok(ArgumentsUnpack_NoGuard(abi.Events[call.name].Inputs, call.in))
    /\ ~Ok(call.ret)

\* the inputs Pack encodes for a name
PackInputs(name) ==
    IF name = <<>> THEN abi.Constructor.Inputs ELSE abi.Mccmods[name].Inputs

\* C7: Pack returns no partial output: when the name is no key of the functions
\* map, or the number of values is not the number of inputs, or a value does not
\* fit its type, Pack returns an error and no bytes, not even the selector
C7_PackNoPartialOutput ==
    call.op = "Pack" =>
        /\ (call.name # <<>> /\ call.name \notin DOMAIN abi.Mccmods) =>
              call.ret = Error("not found")
        /\ (call.name = <<>> \/ call.name \in DOMAIN abi.Mccmods) =>
              /\ Len(call.in) # Len(PackInputs(call.name)) => ~Ok(call.ret)
              /\ ~Ok(ArgumentsPack(PackInputs(call.name), call.in)) => ~Ok(call.ret)
        /\ ~Ok(call.ret) => Len(call.ret.v) = 0

\* a registered function was packed with the right number of values, one of which
\* does not fit its type
C7_Witness ==
    /\ call.op = "Pack"
    /\ call.name \in DOMAIN abi.Mccmods
    /\ call.name # <<>>
    /\ Len(call.in) = Len(abi.Mccmods[call.name].Inputs)
    /\ call.ret.err = "encoding"

\* C8: a successful Pack of a named function is 4 bytes plus a multiple of 32
\* bytes long, a successful Pack of the constructor a multiple of 32 bytes
C8_PackLength ==
    (call.op = "Pack" /\ Ok(call.ret)) =>
        IF call.name = <<>>
        THEN Len(call.ret.v) % 32 = 0
        ELSE Len(call.ret.v) >= 4 /\ (Len(call.ret.v) - 4) % 32 = 0

\* a function with a dynamic input was packed
C8_Witness ==
    /\ call.op = "Pack"
    /\ Ok(call.ret)
    /\ call.name # <<>>
    /\ \E i \in 1..Len(abi.Mccmods[call.name].Inputs) :
          IsDynamicType(abi.Mccmods[call.name].Inputs[i].Type)
    /\ Len(call.ret.v) > 4 + 32 * Len(call.in)

\* the canonical type strings of inputs i, i+1, ... in declared order, each but the
\* first preceded by a comma
RECURSIVE TypeList(_, _)
TypeList(inputs, i) ==
    IF i > Len(inputs) THEN <<>>
    ELSE (IF i > 1 THEN <<",">> ELSE <<>>) \o TypeString(inputs[i].Type)
            \o TypeList(inputs, i + 1)

\* name(type1,type2,...)
Signature(name, inputs) == name \o <<"(">> \o TypeList(inputs, 1) \o <<")">>

\* functions with the name and the input types of m that differ from it in the
\* names of the inputs, in the outputs or in the constant flag
Variants(m) ==
    { [m EXCEPT !.Inputs = [i \in 1..Len(m.Inputs) |-> Arg(<<"y">>, m.Inputs[i].Type)]],
      [m EXCEPT !.Outputs = ArgAS],
      [m EXCEPT !.Outputs = <<>>],
      [m EXCEPT !.Const = ~m.Const] }

C10_Selector ==
    call.op = "Id" =>
        LET m == abi.Mccmods[call.name]
        IN  /\ call.ret.v = Selector(Signature(m.Name, m.Inputs))
            /\ Len(call.ret.v) = 4
            /\ \A v \in Variants(m) : Id(v) = call.ret.v
            /\ \A i \in 1..Len(CallArgs) :
                  (call.name # <<>> /\ Ok(Pack(abi, call.name, CallArgs[i]))) =>
                      SubSeq(Pack(abi, call.name, CallArgs[i]).v, 1, 4) = call.ret.v

\* the selector of a function with inputs was computed, and another function of
\* the registry has another selector
C10_Witness ==
    /\ call.op = "Id"
    /\ Len(abi.Mccmods[call.name].Inputs) > 0
    /\ \E k \in DOMAIN abi.Mccmods : Id(abi.Mccmods[k]) # call.ret.v

\* the signature and the topic id the document declares for its entry i
DeclaredSignature(i) == Signature(LoadedDoc[i].Name, LoadedDoc[i].Inputs)
DeclaredTopic(i) == Keccak256(StringBytes(DeclaredSignature(i)))

\* C11: the topic id of every event registered from a document is the 32-byte
\* hash of the signature built from the name the document declares for the event
\* and the canonical strings of its input types
C11_DeclaredNameTopic ==
    JustLoaded =>
        \A i \in Entries(LoadedDoc, "event") :
            LET key == FirstFreeKey(LoadedDoc, i)
            IN  /\ RegisteredAs(i, key)
                /\ Len(EventId(abi.Events[key])) = 32
                /\ EventId(abi.Events[key]) = DeclaredTopic(i)

\* the functions of the registry whose selector is the first four bytes of sigdata
Matching(sigdata) ==
    {abi.Mccmods[name] : name \in
        {name \in DOMAIN abi.Mccmods :
            Selector(Signature(abi.Mccmods[name].Name, abi.Mccmods[name].Inputs))
                = SubSeq(sigdata, 1, 4)}}

\* C12: on input of at least 4 bytes MccmodById succeeds iff a registered function
\* has the first 4 bytes of the input as its selector, and then returns a function
\* the scan meets with that selector; functions that share a selector are all
\* registered by the load and the lookup of their selector succeeds
C12_LookupBySelector ==
    /\ (call.op = "MccmodById" /\ Len(call.in) >= 4) =>
          /\ Ok(call.ret) <=> Matching(call.in) # {}
          /\ Ok(call.ret) => call.ret.v \in Matching(call.in)
          /\ ~Ok(call.ret) => call.ret = Error("not found")
    /\ JustLoaded =>
          \A i \in Entries(LoadedDoc, "function") :
              RegisteredAs(i, FirstFreeKey(LoadedDoc, i))

\* a selector that two functions of the registry share was looked up with call
\* data behind it, and one of the two was returned
C12_Witness ==
    /\ call.op = "MccmodById"
    /\ Len(call.in) = 36
    /\ Cardinality(Matching(call.in)) = 2
    /\ Ok(call.ret)
    /\ call.ret.v.Name = f

\* the events of the registry whose topic id is topic
WithTopic(topic) ==
    {abi.Events[name] : name \in
        {name \in DOMAIN abi.Events :
            Keccak256(StringBytes(Signature(abi.Events[name].Name,
                                            abi.Events[name].Inputs))) = topic}}

\* C13: EventByID returns an event of the registry whose topic id is the given
\* hash when there is one, and the not-found error and no event when there is none
C13_LookupByTopic ==
    call.op = "EventByID" =>
        IF WithTopic(call.in) # {}
        THEN Ok(call.ret) /\ call.ret.v \in WithTopic(call.in)
        ELSE call.ret = Error("not found")

\* the topic of a signature a document declares was looked up in a registry that
\* holds events, none of them with that topic
C13_Witness ==
    /\ call.op = "EventByID"
    /\ abi.Events # EmptyMap
    /\ call.in # Zeros(32)
    /\ WithTopic(call.in) = {}
    /\ call.ret = Error("not found")

\* C14: after construction the registry is immutable: no step of a Pack, Unpack,
\* UnpackIntoMap, MccmodById or EventByID call, whatever the other callers are
\* doing, changes the constructor, the functions map or the events map
C14_Immutable ==
    [][ /\ abi'.Constructor = abi.Constructor
        /\ abi'.Mccmods = abi.Mccmods
        /\ abi'.Events = abi.Events
        /\ abi' = JSON(DocOf(doc)) ]_vars

\* two callers are inside operations at once, one that misses the name it looks
\* up has run while the other, a lookup by selector, has yet to read the registry
C14_Witness ==
    /\ abi.Mccmods # EmptyMap
    /\ abi.Events # EmptyMap
    /\ \E c, d \in Callers :
          /\ call[c].op = "Pack"
          /\ call[c].pc = "done"
          /\ call[c].ret = Error("not found")
          /\ call[d].op = "MccmodById"
          /\ call[d].pc = "running"

\* the document with the type of every entry that has none, or the empty one,
\* spelled "function"
Typed(fs) ==
    [i \in 1..Len(fs) |-> IF fs[i].Type = "" THEN [fs[i] EXCEPT !.Type = "function"]
                          ELSE fs[i]]

\* the document with the type of every function entry left out
Untyped(fs) ==
    [i \in 1..Len(fs) |-> IF fs[i].Type = "function" THEN [fs[i] EXCEPT !.Type = ""]
                          ELSE fs[i]]

\* C15: an entry whose type is omitted or empty is loaded as if its type were
\* "function": it is in the functions map under the same key with the same
\* constant flag, inputs and outputs, and the registry is the one the document
\* gives with the type written out, or with every "function" left out
C15_UntypedIsFunction ==
    JustLoaded =>
        /\ \A i \in 1..Len(doc) :
              LoadedDoc[i].Type = "" =>
                  \E key \in DOMAIN abi.Mccmods :
                      /\ abi.Mccmods[key] = MccmodOf(key, LoadedDoc[i])
                      /\ JSON(Typed(LoadedDoc)).Mccmods[key]
                            = MccmodOf(key, Typed(LoadedDoc)[i])
        /\ abi.Mccmods = JSON(Typed(LoadedDoc)).Mccmods
        /\ abi.Events = JSON(Typed(LoadedDoc)).Events
        /\ abi.Mccmods = JSON(Untyped(LoadedDoc)).Mccmods

\* an entry without a type follows a function entry and another entry without a
\* type of the same name, and is registered under a generated key
C15_Witness ==
    /\ JustLoaded
    /\ Len(doc) = 3
    /\ LoadedDoc[1].Type = "function"
    /\ LoadedDoc[2].Type = ""
    /\ LoadedDoc[3].Type = ""
    /\ RegisteredAs(3, LoadedDoc[3].Name \o <<"0">>)
    /\ Cardinality(DOMAIN abi.Mccmods) = 3

\* the arguments i, i+1, ... of a schema in declared order, each rendered as its
\* canonical type, then a space and its name (for an output only when it has a
\* name), and each but the first preceded by a comma and a space
RECURSIVE Rendered(_, _, _)
Rendered(arguments, i, output) ==
    IF i > Len(arguments) THEN <<>>
    ELSE (IF i > 1 THEN <<",", " ">> ELSE <<>>)
            \o TypeString(arguments[i].Type)
            \o (IF output /\ arguments[i].Name = <<>> THEN <<>>
                ELSE <<" ">> \o arguments[i].Name)
            \o Rendered(arguments, i + 1, output)

\* C16: the rendered form of a function is "function ", its name, "(", its inputs
\* as "type name" joined by ", ", ") ", "constant " iff the function is constant,
\* "returns(", its outputs as "type", followed by " name" only when the output has
\* a name, joined by ", ", and ")"
C16_RenderedForm ==
    call.op = "String" =>
        LET m == abi.Mccmods[call.name]
        IN  call.ret.v =
                <<"f", "u", "n", "c", "t", "i", "o", "n", " ">> \o m.Name \o <<"(">>
                    \o Rendered(m.Inputs, 1, FALSE) \o <<")", " ">>
                    \o (IF m.Const THEN <<"c", "o", "n", "s", "t", "a", "n", "t", " ">>
                        ELSE <<>>)
                    \o <<"r", "e", "t", "u", "r", "n", "s", "(">>
                    \o Rendered(m.Outputs, 1, TRUE) \o <<")">>

\* a function of one input and an output without a name was rendered:
\* "function f(uint8 x) returns(bool)"
C16_Witness ==
    /\ call.op = "String"
    /\ call.ret.v = <<"f", "u", "n", "c", "t", "i", "o", "n", " ", "f", "(",
                      "u", "i", "n", "t", "8", " ", "x", ")", " ",
                      "r", "e", "t", "u", "r", "n", "s", "(", "b", "o", "o", "l", ")">>

\* the encoded arguments of a successful Pack: what follows the selector
Body(name, packed) == IF name = <<>> THEN packed ELSE SubSeq(packed, 5, Len(packed))

\* C17 as claimed: decoding the bytes the encoder gives for well-typed values
\* under a schema, under the same schema, yields the values in the same order
C17_RoundTrip ==
    (call.op = "Pack" /\ Ok(call.ret)) =>
        ArgumentsUnpack(PackInputs(call.name), Body(call.name, call.ret.v))
            = Done(call.in)

\* C17 amended: the same, for values whose encoding is not the empty byte sequence
C17_RoundTripNonEmpty ==
    (call.op = "Pack" /\ Ok(call.ret) /\ Body(call.name, call.ret.v) # <<>>) =>
        ArgumentsUnpack(PackInputs(call.name), Body(call.name, call.ret.v))
            = Done(call.in)

\* a string, an integer and an empty string were encoded and decode to themselves
C17_Witness ==
    /\ call.op = "Pack"
    /\ Ok(call.ret)
    /\ Len(call.in) = 3
    /\ call.in[3] = StringV(<<>>)
    /\ ArgumentsUnpack(PackInputs(call.name), Body(call.name, call.ret.v))
          = Done(call.in)

\* the encoding of value i of the Pack in progress on its own
Encoding(i) == PackType(PackInputs(call.name)[i].Type, call.in[i]).v

\* the length of the encodings of the dynamic arguments before argument i
RECURSIVE TailBefore(_)
TailBefore(i) ==
    IF i <= 1 THEN 0
    ELSE TailBefore(i - 1)
            + (IF IsDynamicType(PackInputs(call.name)[i - 1].Type)
               THEN Len(Encoding(i - 1)) ELSE 0)

\* C18: in the encoded arguments every static top-level argument stands in place
\* in the head, and the head slot of every dynamic one holds, as a 32-byte
\* big-endian word, the head length plus the length of the tail before the
\* argument's encoding is appended, which is where that encoding starts
C18_HeadTailOffsets ==
    (call.op = "Pack" /\ Ok(call.ret)) =>
        LET types == Types(PackInputs(call.name))
            body == Body(call.name, call.ret.v)
        IN  /\ Len(body) = HeadSize(types) + TailBefore(Len(types) + 1)
            /\ \A i \in 1..Len(types) :
                  LET slot == HeadSize(SubSeq(types, 1, i - 1))
                      offset == HeadSize(types) + TailBefore(i)
                  IN  IF IsDynamicType(types[i])
                      THEN /\ SubSeq(body, slot + 1, slot + 32) = Word(offset)
                           /\ SubSeq(body, offset + 1, offset + Len(Encoding(i)))
                                 = Encoding(i)
                      ELSE SubSeq(body, slot + 1, slot + Len(Encoding(i))) = Encoding(i)

\* a second dynamic argument was encoded behind a static one and a first dynamic
\* one: its slot holds the 96 bytes of the head plus the 64 of the tail so far
C18_Witness ==
    /\ call.op = "Pack"
    /\ Ok(call.ret)
    /\ Types(PackInputs(call.name)) = <<String, Uint256, String>>
    /\ SubSeq(Body(call.name, call.ret.v), 65, 96) = Word(160)
    /\ SubSeq(Body(call.name, call.ret.v), 161, 192) = Word(0)

\* the text of a type with uint written for uint256 and uint256 for uint, and
\* int for int256 and int256 for int
Respell(t) ==
    LET cut == First(t, {"["})
        base == SubSeq(t, 1, cut - 1)
        int == <<"i", "n", "t">>
    IN  (CASE base = uint -> uint256
           [] base = uint256 -> uint
           [] base = int -> int \o <<"2", "5", "6">>
           [] base = int \o <<"2", "5", "6">> -> int
           [] OTHER -> base) \o SubSeq(t, cut, Len(t))

\* arguments as written, with every type and every component respelled
RECURSIVE RespellAll(_)
RespellAll(decls) ==
    [i \in 1..Len(decls) |->
        Decl(decls[i].Name, Respell(decls[i].Type), RespellAll(decls[i].Components))]

\* what json.Unmarshal parses from the loaded document written in the other spelling
RespelledDoc ==
    [i \in 1..Len(doc) |->
        Unmarshal([Decls[doc[i]] EXCEPT !.Inputs = RespellAll(@),
                                        !.Outputs = RespellAll(@)])]

\* C19: uint and uint256 parse to the same type, and so do int and int256: the
\* document written in the other spelling gives the same functions and events,
\* and every function has the signature and the selector of its respelled twin
C19_CanonicalIntegers ==
    /\ JustLoaded =>
          /\ NewType(uint, <<>>) = NewType(uint256, <<>>)
          /\ NewType(<<"i", "n", "t">>, <<>>)
                = NewType(<<"i", "n", "t", "2", "5", "6">>, <<>>)
          /\ abi.Mccmods = JSON(RespelledDoc).Mccmods
          /\ abi.Events = JSON(RespelledDoc).Events
    /\ call.op = "Sig" => call.ret.v = Sig(JSON(RespelledDoc).Mccmods[call.name])
    /\ call.op = "Id" => call.ret.v = Id(JSON(RespelledDoc).Mccmods[call.name])

\* the signature of a function whose document writes uint for its first input
\* was computed: f(uint256,string)
C19_Witness ==
    /\ call.op = "Sig"
    /\ \E i \in Entries(LoadedDoc, "function") :
          /\ FirstFreeKey(LoadedDoc, i) = call.name
          /\ Decls[doc[i]].Inputs[1].Type = uint
          /\ RespelledDoc[i].Inputs = LoadedDoc[i].Inputs
    /\ call.ret.v = <<"f", "(", "u", "i", "n", "t", "2", "5", "6", ",",
                      "s", "t", "r", "i", "n", "g", ")">>

C21_NoEntryLost ==
    JustLoaded =>
        /\ Cardinality(DOMAIN abi.Mccmods)
              = Cardinality({i \in 1..Len(doc) : LoadedDoc[i].Type \in {"function", ""}})
        /\ Cardinality(DOMAIN abi.Events)
              = Cardinality({i \in 1..Len(doc) : LoadedDoc[i].Type = "event"})

\* a document of two functions f and a function that declares f0, the key
\* generated for the second f, was loaded: three keys
C21_Witness ==
    /\ JustLoaded
    /\ Len(doc) = 3
    /\ LoadedDoc[1].Name = f /\ LoadedDoc[2].Name = f /\ LoadedDoc[3].Name = f0
    /\ DOMAIN abi.Mccmods = {f, f0, <<"f", "0", "0">>}

\* C22: every function stored under key k has Name k and every event stored under
\* key k has Name k, so that the signature and the selector of a function and the
\* topic of an event are those of the key, not of the declared name
C22_NameIsKey ==
    /\ JustLoaded =>
          /\ \A k \in DOMAIN abi.Mccmods : abi.Mccmods[k].Name = k
          /\ \A k \in DOMAIN abi.Events :
                /\ abi.Events[k].Name = k
                /\ EventId(abi.Events[k])
                      = Keccak256(StringBytes(Signature(k, abi.Events[k].Inputs)))
    /\ call.op = "Sig" =>
          call.ret.v = Signature(call.name, abi.Mccmods[call.name].Inputs)
    /\ call.op = "Id" =>
          call.ret.v = Selector(Signature(call.name, abi.Mccmods[call.name].Inputs))

\* the signature of a function that declares f and is registered under f0 was
\* computed: it starts with f0(
C22_Witness ==
    /\ call.op = "Sig"
    /\ call.name = f0
    /\ \E i \in Entries(LoadedDoc, "function") :
          /\ LoadedDoc[i].Name = f
          /\ RegisteredAs(i, f0)
    /\ SubSeq(call.ret.v, 1, 3) = <<"f", "0", "(">>

\* C23: with empty data Unpack and UnpackIntoMap return the empty-output error
\* for every name, registered or not, and never the not-found error
C23_EmptyDataFirst ==
    (call.op \in Unpacks /\ Len(call.in) = 0) => call.ret = Error("empty output")

\* empty data was unpacked for a name that is in neither map, in a registry that
\* holds a function without outputs
C23_Witness ==
    /\ call.op \in Unpacks
    /\ Len(call.in) = 0
    /\ call.name \notin DOMAIN abi.Mccmods \cup DOMAIN abi.Events
    /\ \E k \in DOMAIN abi.Mccmods : abi.Mccmods[k].Outputs = <<>>
    /\ call.ret = Error("empty output")

\* C24: Pack of the empty name encodes against the constructor's inputs, without
\* a selector and whatever the functions map holds; Unpack and UnpackIntoMap of the
\* empty name decode against the function or event stored under the empty key and
\* return not-found without one, whatever the constructor is; and a function entry
\* that declares the empty name is stored under the empty key
C24_EmptyName ==
    /\ (call.op = "Pack" /\ call.name = <<>>) =>
          LET arguments == ArgumentsPack(abi.Constructor.Inputs, call.in)
          IN  call.ret = IF Ok(arguments) THEN Done(arguments.v)
                         ELSE Error(arguments.err)
    /\ (call.op \in Unpacks /\ call.name = <<>> /\ Len(call.in) > 0) =>
          IF <<>> \in DOMAIN abi.Mccmods
          THEN SameOutcome(call.ret, Decoded(abi.Mccmods[<<>>].Outputs))
          ELSE IF <<>> \in DOMAIN abi.Events
          THEN SameOutcome(call.ret, Decoded(abi.Events[<<>>].Inputs))
          ELSE call.ret = Error("not found")
    /\ JustLoaded =>
          \A i \in Entries(LoadedDoc, "function") :
              (LoadedDoc[i].Name = <<>>
                 /\ \A j \in Entries(LoadedDoc, "function") :
                       LoadedDoc[j].Name = <<>> => i <= j)
                  => RegisteredAs(i, <<>>)

\* the empty name was packed in a registry that holds a function under the empty
\* key and a constructor with other inputs: the result is the encoding of the
\* arguments against the constructor, and carries no selector
C24_Witness ==
    /\ call.op = "Pack"
    /\ call.name = <<>>
    /\ <<>> \in DOMAIN abi.Mccmods
    /\ abi.Mccmods[<<>>].Inputs # abi.Constructor.Inputs
    /\ Ok(call.ret)
    /\ call.ret.v = Word(5)

\* the empty name was unpacked in a registry that holds a function under the
\* empty key and a constructor: the data decoded against the function's outputs
C24_UnpackWitness ==
    /\ call.op = "Unpack"
    /\ call.name = <<>>
    /\ <<>> \in DOMAIN abi.Mccmods
    /\ abi.Constructor.Inputs # <<>>
    /\ Ok(call.ret)
    /\ ~Ok(Decoded(abi.Constructor.Inputs))

\* C25: after a load, constructor, functions and events are those that loading
\* the same document into an empty registry yields, whatever the receiver held
C25_DocumentAlone ==
    JustLoaded => abi = JSON(LoadedDoc)

\* what does hold: the two maps depend on the document alone, and so does the
\* constructor when the document has a constructor entry
C25_MapsOfDocument ==
    JustLoaded =>
        /\ abi.Mccmods = JSON(LoadedDoc).Mccmods
        /\ abi.Events = JSON(LoadedDoc).Events
        /\ Entries(LoadedDoc, "constructor") # {}
              => abi.Constructor = JSON(LoadedDoc).Constructor

\* a document without a constructor entry was loaded into a registry that held
\* a constructor with inputs: the constructor is still there
C25_StaleConstructor ==
    /\ call.op = "UnmarshalJSON"
    /\ Entries(LoadedDoc, "constructor") = {}
    /\ abi.Constructor # ZeroMccmod
    /\ abi.Constructor # JSON(LoadedDoc).Constructor

\* the position of the last constructor entry of fs, 0 without one
LastConstructor(fs) ==
    IF Entries(fs, "constructor") = {} THEN 0
    ELSE CHOOSE i \in Entries(fs, "constructor") :
             \A j \in Entries(fs, "constructor") : j <= i

\* C26: after a load the constructor is the one built from the last constructor
\* entry of the document, and the function without inputs when the document has
\* none; and constructor entries add no key to either map
C26_LastConstructor ==
    JustLoaded =>
        /\ abi.Constructor =
              IF LastConstructor(LoadedDoc) = 0 THEN ZeroMccmod
              ELSE NewMccmod(<<>>, FALSE,
                             LoadedDoc[LastConstructor(LoadedDoc)].Inputs, <<>>)
        /\ abi.Mccmods = JSON(Without(LoadedDoc, "constructor")).Mccmods
        /\ abi.Events = JSON(Without(LoadedDoc, "constructor")).Events

\* what does hold: the clauses of C26 other than the one on documents without a
\* constructor entry
C26_LastOfSeveral ==
    JustLoaded =>
        /\ LastConstructor(LoadedDoc) # 0 =>
              abi.Constructor = NewMccmod(<<>>, FALSE,
                                    LoadedDoc[LastConstructor(LoadedDoc)].Inputs, <<>>)
        /\ abi.Mccmods = JSON(Without(LoadedDoc, "constructor")).Mccmods
        /\ abi.Events = JSON(Without(LoadedDoc, "constructor")).Events

\* a document with two different constructor entries and a function between
\* them was loaded
C26_SeveralConstructors ==
    /\ JustLoaded
    /\ Len(doc) = 3
    /\ Kind(LoadedDoc[1]) = "constructor" /\ Kind(LoadedDoc[3]) = "constructor"
    /\ Kind(LoadedDoc[2]) = "function"
    /\ LoadedDoc[1].Inputs # LoadedDoc[3].Inputs
    /\ abi.Constructor.Inputs = LoadedDoc[3].Inputs

\* the entries of fs whose type is one of those the loader knows
Known(fs) ==
    LET Keep(e) == e.Type \in {"constructor", "function", "event", ""}
    IN  SelectSeq(fs, Keep)

\* C27: an entry whose type is none of constructor, function, event or empty is
\* skipped: every load gives the registry that loading the document without
\* these entries into the same receiver gives, so constructor, maps and the keys
\* of the later entries are untouched by it
C27_UnknownSkipped ==
    /\ [](call.op = "new" => abi = JSON(Known(LoadedDoc)))
    /\ [][call'.op = "UnmarshalJSON" => abi' = Load(abi, Known(DocOf(doc')))]_vars

\* a document with an entry of type fallback named f between two functions f
\* was loaded: the keys are f and f0
C27_Witness ==
    /\ call.op = "UnmarshalJSON"
    /\ Len(doc) = 3
    /\ LoadedDoc[1].Name = f /\ Kind(LoadedDoc[1]) = "function"
    /\ LoadedDoc[2].Name = f /\ LoadedDoc[2].Type = "fallback"
    /\ LoadedDoc[3].Name = f /\ Kind(LoadedDoc[3]) = "function"
    /\ DOMAIN abi.Mccmods = {f, f0}
    /\ DOMAIN abi.Events = {}

\* C28: on input shorter than 4 bytes MccmodById returns the too-short error and
\* no function; on input longer than 4 bytes what it may return, and what it did
\* return, is what it may return for the first 4 bytes alone
C28_FirstFourBytes ==
    call.op = "MccmodById" =>
        /\ Len(call.in) < 4 => call.ret = Error("data too short")
        /\ Len(call.in) > 4 =>
              LET first == MccmodById(abi, SubSeq(call.in, 1, 4))
              IN  /\ MccmodById(abi, call.in) = first
                  /\ call.ret \in first

\* the first three bytes of the selector of a registered function were looked
\* up and the call failed; and complete call data, the selector and an encoded
\* argument, can be looked up in the same registry
C28_Witness ==
    /\ call.op = "MccmodById"
    /\ Len(call.in) = 3
    /\ \E name \in DOMAIN abi.Mccmods :
          /\ SubSeq(Id(abi.Mccmods[name]), 1, 3) = call.in
          /\ Done(abi.Mccmods[name])
                \in MccmodById(abi, Id(abi.Mccmods[name]) \o Word(5))
    /\ ~Ok(call.ret)

\* the selectors of the registered functions are pairwise distinct
DistinctSelectors ==
    Cardinality({Id(abi.Mccmods[k]) : k \in DOMAIN abi.Mccmods})
        = Cardinality(DOMAIN abi.Mccmods)

\* C29: for a registered function with non-empty key, whatever a successful Pack
\* of its name returns, every result MccmodById may give for the packed bytes is
\* a function with the selector of the packed function, and is the packed
\* function itself when the selectors of the registry are pairwise distinct
C29_PackThenLookup ==
    (call.op = "Pack" /\ call.name # <<>> /\ Ok(call.ret)) =>
        LET found == MccmodById(abi, call.ret.v)
            id == Id(abi.Mccmods[call.name])
        IN  /\ \A r \in found : Ok(r) /\ Id(r.v) = id
            /\ DistinctSelectors => found = {Done(abi.Mccmods[call.name])}

\* f was packed in a registry where another function shares its selector: the
\* lookup of the packed bytes may return either
C29_Witness ==
    /\ call.op = "Pack"
    /\ call.name = f
    /\ Ok(call.ret)
    /\ ~DistinctSelectors
    /\ Cardinality(MccmodById(abi, call.ret.v)) = 2

\* f0 was packed in a registry of pairwise distinct selectors and the lookup of
\* the packed bytes returns the function under f0
C29_DistinctWitness ==
    /\ call.op = "Pack"
    /\ call.name = f0
    /\ Ok(call.ret)
    /\ Cardinality(DOMAIN abi.Mccmods) >= 2
    /\ DistinctSelectors
    /\ MccmodById(abi, call.ret.v) = {Done(abi.Mccmods[f0])}

====
